---- MODULE Spec2Model ----
(***************************************************************************)
(* Storage virtualization of the EMS time-tracking application: the        *)
(* document store, the storage adapter (storage_adapter.py), the direct    *)
(* and virtual-filesystem read/write helpers of app.py, the bootstrap      *)
(* (ensure_admins_file), the member, time-entry and admin request         *)
(* handlers, add_member served step by step on concurrent worker threads,  *)
(* and the two migration scripts.                                          *)
(*                                                                         *)
(* A JSON value is a tagged record [t, v]: L(seq) a list, S(str) a string, *)
(* M(doc) a nested mapping.  A document (a Python dict) is a function from *)
(* key strings to JSON values; the empty dict is the empty function.       *)
(***************************************************************************)
EXTENDS Integers, Sequences, FiniteSets, TLC

VARIABLES
    store,      \* collection name -> sequence of stored documents (natural order)
    mongoUp,    \* TRUE when the MongoDB server answers
    is_vercel,  \* app.py:9, the deployment profile of the app process
    disk,       \* real files under data/: path -> <<>> (absent) or <<document>>
    app,        \* the app process: "stopped", "running" or "crashed"
    client_file,\* the logical file the storage adapter's caller works on
    reqs,       \* worker thread -> the add_member request it is serving, step by step
    backend,    \* virtual_storage.MongoDBBackend: the class, its instance, its callers
    vfile,      \* the file object the program holds from its latest open()
    clients,    \* the MongoClient objects built by app.py and by db.py
    last        \* the most recent operation, its arguments and its outcome

vars == <<store, mongoUp, is_vercel, disk, app, client_file, reqs, backend, vfile, clients, last>>

\* ------------------------------------------------------------------ bounds
MaxAdmins == 2      \* add_admin is offered while the admins list is shorter
MaxDocs == 2        \* migrate_all is offered while a collection holds fewer documents
MaxUsers == 2       \* add_member is offered while the users list is shorter
MaxEntries == 2     \* add_entry is offered while the entries list is shorter
MaxWorkers == 2     \* request-handling threads of the app process
MaxClients == 2     \* get_mongo_client is offered while it has built fewer MongoClient objects

\* ------------------------------------------------------------ JSON values
L(s) == [t |-> "list", v |-> s]
S(s) == [t |-> "str", v |-> s]
M(d) == [t |-> "map", v |-> d]
ObjectId == [t |-> "oid", v |-> "ObjectId"]

EmptyDoc == [k \in {} |-> S("")]

\* dict.get(k, default)
Get(d, k, default) == IF k \in DOMAIN d THEN d[k] ELSE default

\* isinstance(d.get(k), list) / isinstance(d.get(k), str)
IsList(d, k) == k \in DOMAIN d /\ d[k].t = "list"
IsStr(d, k) == k \in DOMAIN d /\ d[k].t = "str"

\* d with the entries of n set over it (dict update, Mongo's $set)
Merge(d, n) == [k \in DOMAIN d \cup DOMAIN n |-> IF k \in DOMAIN n THEN n[k] ELSE d[k]]

\* del document['_id'] / doc.pop('_id', None) / projection {'_id': 0}
StripId(d) == [k \in DOMAIN d \ {"_id"} |-> d[k]]

\* ------------------------------------------------------ logical file names
USERS_FILE == "data/users.json"
ENTRIES_FILE == "data/time_entries.json"
MESSAGE_FILE == "data/message.json"
ADMINS_FILE == "data/admins.json"
ADMIN_SETTINGS_FILE == "data/admin_settings.json"

Files == {USERS_FILE, ENTRIES_FILE, MESSAGE_FILE, ADMINS_FILE, ADMIN_SETTINGS_FILE}

\* File names a caller may pass that FILE_TO_COLLECTION does not hold.
UnknownFiles == {"data/config.json", "data/users_backup.json"}

Collections == {"users", "time_entries", "message", "admins", "admin_settings"}

\* storage_adapter.FILE_TO_COLLECTION: path -> <<collection, data key>>
FILE_TO_COLLECTION ==
    [f \in Files |->
        CASE f = USERS_FILE -> <<"users", "users">>
          [] f = ENTRIES_FILE -> <<"time_entries", "entries">>
          [] f = MESSAGE_FILE -> <<"message", "message_data">>
          [] f = ADMINS_FILE -> <<"admins", "admins">>
          [] f = ADMIN_SETTINGS_FILE -> <<"admin_settings", "settings">>]

\* app.py's collection_map (the same table in _read_from_mongodb and _write_to_mongodb)
collection_map ==
    [f \in Files |->
        CASE f = USERS_FILE -> "users"
          [] f = ADMINS_FILE -> "admins"
          [] f = ENTRIES_FILE -> "time_entries"
          [] f = MESSAGE_FILE -> "message"
          [] f = ADMIN_SETTINGS_FILE -> "admin_settings"]

\* ------------------------------------------------- the document store
\* pymongo on one collection, given as the sequence of its documents.
find_one(docs) == Head(docs)                       \* only when docs # <<>>
count_documents(docs) == Len(docs)
insert_one(docs, d) == Append(docs, Merge(d, [_id |-> ObjectId]))
delete_many(docs) == <<>>
\* update_one({}, {'$set': n}, upsert=True): the first document gets the
\* fields of n set, every other field kept; an empty collection gets n.
update_one_set_upsert(docs, n) ==
    IF docs = <<>>
        THEN <<Merge(n, [_id |-> ObjectId])>>
        ELSE <<Merge(Head(docs), n)>> \o Tail(docs)

\* ------------------------------------------------------------ input data
\* Account records of users.json.
Alice == [id |-> 1, username |-> "alice", password |-> "pw", role |-> "member", name |-> "Alice"]
Bob == [id |-> 7, username |-> "bob", password |-> "pw", role |-> "boss", name |-> "Bob"]
Carol == [id |-> 2, username |-> "carol", password |-> "pw", role |-> "manager", name |-> "Carol"]

\* The users lists offered as inputs.
UserLists == {<<>>, <<Alice>>, <<Alice, Bob>>, <<Carol, Alice, Bob>>, <<Alice, Carol>>}

EntryA == [id |-> 1, member_id |-> 1, member_name |-> "Alice", date |-> "d1"]
EntryB == [id |-> 2, member_id |-> 1, member_name |-> "Alice", date |-> "d2"]

\* An admin record as add_admin and ensure_admins_file build it.
Admin(i, u, p, r, n, perm) ==
    [id |-> i, username |-> u, password |-> p, role |-> r, name |-> n, permanent |-> perm]

\* The canonical documents a caller hands to write_json, per logical file.
WriteInputs(f) ==
    CASE f = USERS_FILE -> {[users |-> L(u)] : u \in UserLists}
      [] f = ENTRIES_FILE -> {[entries |-> L(<<>>)], [entries |-> L(<<EntryA>>)],
                              [entries |-> L(<<EntryA, EntryB>>)]}
      [] f = MESSAGE_FILE -> {[message |-> S("")], [message |-> S("hello")]}
      [] f = ADMINS_FILE -> {[admins |-> L(<<>>)],
                             [admins |-> L(<<Admin(1, "bob", "pw", "boss", "Bob", TRUE)>>)]}
      [] f = ADMIN_SETTINGS_FILE -> {EmptyDoc, [theme |-> S("dark")]}
      [] OTHER -> {[users |-> L(<<Alice>>)]}

\* The record kept of the most recent operation; exc names the exception
\* that left the call, "" when the call returned; freed holds the ids of the
\* records a delete request removed (and, on the add request that directly
\* follows it on the same file, the ids that request had removed).
Op(op, f, arg, ok, res, status) ==
    [op |-> op, f |-> f, arg |-> arg, ok |-> ok, res |-> res, status |-> status, exc |-> "",
     freed |-> {}]

\* ... of a call that an exception left.
Raising(o, exc) == [o EXCEPT !.exc = exc]

\* ------------------------------------------------------ storage_adapter.py
\* The structures table of _ensure_structure.
ensure_structure(collection_name, data) ==
    CASE collection_name = "users" ->
            [users |-> IF IsList(data, "users") THEN data["users"] ELSE L(<<>>)]
      [] collection_name = "time_entries" ->
            [entries |-> IF IsList(data, "entries") THEN data["entries"] ELSE L(<<>>)]
      [] collection_name = "message" ->
            [message_data |-> IF IsStr(data, "message") THEN data["message"] ELSE S("")]
      [] collection_name = "admins" ->
            [admins |-> IF IsList(data, "admins") THEN data["admins"] ELSE L(<<>>)]
      [] collection_name = "admin_settings" ->
            [settings |-> M(data)]

\* A call _ensure_structure(collection_name, data_key, raw) with any JSON
\* value raw, a mapping M(d) or not: [exc, res].  d.get on a value that is
\* not a dict raises AttributeError; the admin_settings lambda does not touch d.
ensure_structure_call(collection_name, raw) ==
    IF collection_name = "admin_settings" THEN [exc |-> "", res |-> [settings |-> raw]]
    ELSE IF raw.t # "map" THEN [exc |-> "AttributeError", res |-> EmptyDoc]
    ELSE [exc |-> "", res |-> ensure_structure(collection_name, raw.v)]

\* The raw inputs offered to _ensure_structure for a file: well-formed
\* documents, a wrong field type, a missing field, an extra field, and
\* values that are not mappings.
RawInputs(f) ==
    {M(d) : d \in WriteInputs(f)}
    \cup {M([users |-> S("x"), entries |-> S("x"), message |-> L(<<>>), admins |-> S("x")]),
          M(EmptyDoc),
          M([users |-> L(<<Alice>>), entries |-> L(<<EntryA>>), message |-> S("hello"),
             admins |-> L(<<>>), version |-> S("1.0")]),
          L(<<Alice>>), S("hello")}

\* The empty structure read_json returns and ensure_file_exists writes.
empty_structure(collection_name) ==
    CASE collection_name = "users" -> [users |-> L(<<>>)]
      [] collection_name = "time_entries" -> [entries |-> L(<<>>)]
      [] collection_name = "message" -> [message |-> S("")]
      [] collection_name = "admins" -> [admins |-> L(<<>>)]
      [] collection_name = "admin_settings" -> EmptyDoc

\* "word in filename" on the file names of the model
\* ('admins' is not a substring of 'data/admin_settings.json').
Contains(filename, word) ==
    CASE word = "users" -> filename \in {USERS_FILE, "data/users_backup.json"}
      [] word = "entries" -> filename = ENTRIES_FILE
      [] word = "message" -> filename = MESSAGE_FILE
      [] word = "admins" -> filename = ADMINS_FILE

\* read_json's except branch: substring tests on the file name, in order.
error_structure(filename) ==
    IF Contains(filename, "users") THEN [users |-> L(<<>>)]
    ELSE IF Contains(filename, "entries") THEN [entries |-> L(<<>>)]
    ELSE IF Contains(filename, "message") THEN [message |-> S("")]
    ELSE IF Contains(filename, "admins") THEN [admins |-> L(<<>>)]
    ELSE EmptyDoc

\* read_json(filename): [ok, res, exc]; ok is FALSE when the except branch
\* answered.  The whole body sits in try/except Exception and the except
\* branch returns, so no exception leaves the call: the ValueError of
\* _get_collection_and_key for an unknown file name is caught too.
adapter_read(st, up, filename) ==
    LET c == FILE_TO_COLLECTION[filename][1] IN
    IF filename \notin DOMAIN FILE_TO_COLLECTION
        THEN [ok |-> FALSE, res |-> error_structure(filename), exc |-> ""]
    ELSE IF ~up THEN [ok |-> FALSE, res |-> error_structure(filename), exc |-> ""]
    ELSE IF st[c] = <<>> THEN [ok |-> TRUE, res |-> empty_structure(c), exc |-> ""]
    ELSE [ok |-> TRUE, res |-> StripId(find_one(st[c])), exc |-> ""]

\* write_json(filename, data): [ok, store, exc]; every exception of the body,
\* the ValueError of an unknown file name included, is raised again as RuntimeError.
adapter_write(st, up, filename, data) ==
    LET c == FILE_TO_COLLECTION[filename][1] IN
    IF filename \notin DOMAIN FILE_TO_COLLECTION
        THEN [ok |-> FALSE, store |-> st, exc |-> "RuntimeError"]
    ELSE IF ~up THEN [ok |-> FALSE, store |-> st, exc |-> "RuntimeError"]
    ELSE [ok |-> TRUE, exc |-> "",
          store |-> [st EXCEPT ![c] = update_one_set_upsert(st[c], ensure_structure(c, data))]]

\* ensure_file_exists(filename): the store afterwards (errors are swallowed).
ensure_file_exists(st, up, filename) ==
    LET c == FILE_TO_COLLECTION[filename][1] IN
    IF ~up THEN st
    ELSE IF count_documents(st[c]) = 0
        THEN adapter_write(st, up, filename, empty_structure(c)).store
        ELSE st

\* The loop of initialize_storage over FILE_TO_COLLECTION.keys(), in dict order.
FileOrder == <<USERS_FILE, ENTRIES_FILE, MESSAGE_FILE, ADMINS_FILE, ADMIN_SETTINGS_FILE>>

RECURSIVE ensure_all(_, _, _)
ensure_all(st, up, i) ==
    IF i > Len(FileOrder) THEN st
    ELSE ensure_all(ensure_file_exists(st, up, FileOrder[i]), up, i + 1)

\* Action: a caller of storage_adapter.read_json.
adapter_read_json(f) ==
    LET r == adapter_read(store, mongoUp, f) IN
    /\ last' = Raising(Op("adapter.read_json", f, EmptyDoc, r.ok, r.res, 0), r.exc)
    /\ UNCHANGED <<store, mongoUp, is_vercel, disk, app, client_file, reqs, backend, vfile, clients>>

\* Action: a caller of storage_adapter.write_json.
adapter_write_json(f, data) ==
    LET r == adapter_write(store, mongoUp, f, data) IN
    /\ store' = r.store
    /\ last' = Raising(Op("adapter.write_json", f, data, r.ok, EmptyDoc, 0), r.exc)
    /\ UNCHANGED <<mongoUp, is_vercel, disk, app, client_file, reqs, backend, vfile, clients>>

\* Action: a call of _ensure_structure for a registered file with a raw input.
call_ensure_structure(f, raw) ==
    /\ f \in Files
    /\ LET r == ensure_structure_call(FILE_TO_COLLECTION[f][1], raw)
       IN last' = Raising(Op("_ensure_structure", f, raw, r.exc = "", r.res, 0), r.exc)
    /\ UNCHANGED <<store, mongoUp, is_vercel, disk, app, client_file, reqs, backend, vfile, clients>>

\* Action: initialize_storage(); ensure_collections raises when the store is down.
initialize_storage ==
    /\ store' = IF mongoUp THEN ensure_all(store, mongoUp, 1) ELSE store
    /\ last' = Raising(Op("initialize_storage", "", EmptyDoc, mongoUp, EmptyDoc, 0),
                        IF mongoUp THEN "" ELSE "RuntimeError")
    /\ UNCHANGED <<mongoUp, is_vercel, disk, app, client_file, reqs, backend, vfile, clients>>

\* ------------------------------------------------------ virtual_storage.py
\* MongoDBBackend._db is assigned by _connect alone, and nothing calls _connect:
\* the second get_db (lines 91-93) replaces the lazy one (lines 85-89), so
\* get_collection subscripts None and raises TypeError.
backend_db_connected == backend.db # "None"

\* VirtualJSONFile._read_from_mongodb followed by json.load of the buffer.
virtual_read(st, up, path) ==
    LET c == collection_map[path] IN
    IF ~backend_db_connected \/ ~up THEN EmptyDoc
    ELSE IF st[c] = <<>> THEN empty_structure(c)
    ELSE StripId(find_one(st[c]))

\* json.dump into the buffer, then close() -> _write_to_mongodb:
\* replace_one({}, json_data, upsert=True); the exception is re-raised.
virtual_write(st, up, path, data) ==
    LET c == collection_map[path] IN
    IF ~backend_db_connected \/ ~up THEN [ok |-> FALSE, store |-> st]
    ELSE [ok |-> TRUE,
          store |-> [st EXCEPT ![c] =
                        <<Merge(data, [_id |-> ObjectId])>> \o
                        (IF st[c] = <<>> THEN <<>> ELSE Tail(st[c]))]]

\* ------------------------------------------------------------------ app.py
\* os.path.exists(filename) looks at the real disk, in both profiles.
path_exists(filename) == disk[filename] # <<>>

\* _read_from_mongodb(filename)
read_from_mongodb(st, up, filename) ==
    IF ~up THEN EmptyDoc
    ELSE IF st[collection_map[filename]] = <<>> THEN EmptyDoc
    ELSE StripId(find_one(st[collection_map[filename]]))

\* _write_to_mongodb(filename, data): every failure is swallowed.
write_to_mongodb(st, up, filename, data) ==
    IF ~up THEN st
    ELSE [st EXCEPT ![collection_map[filename]] = insert_one(delete_many(@), data)]

\* read_json(filename)
read_json(st, up, filename) ==
    IF is_vercel THEN read_from_mongodb(st, up, filename)
    ELSE IF ~path_exists(filename) THEN EmptyDoc
    ELSE virtual_read(st, up, filename)

\* write_json(filename, data): [ok, store]; ok is FALSE when the call raises.
write_json(st, up, filename, data) ==
    IF is_vercel THEN [ok |-> TRUE, store |-> write_to_mongodb(st, up, filename, data)]
    ELSE virtual_write(st, up, filename, data)

\* x.get(k, default) on an account record
RGet(r, k, default) == IF k \in DOMAIN r THEN r[k] ELSE default

\* data.get(key, []) of a document whose list field is a list
ListOf(d, key) == IF key \in DOMAIN d THEN d[key].v ELSE <<>>

\* The index sorted(..., key=id)[0] picks among cand: least id, first on ties.
FirstMinId(al, cand) ==
    CHOOSE i \in cand : \A j \in cand : al[i].id < al[j].id \/ (al[i].id = al[j].id /\ i <= j)

\* _ensure_one_permanent(admins_list)
ensure_one_permanent(admins_list) ==
    IF \E i \in DOMAIN admins_list : RGet(admins_list[i], "permanent", FALSE)
        THEN admins_list
    ELSE LET bosses == {i \in DOMAIN admins_list : RGet(admins_list[i], "role", "") = "boss"}
             cand == IF bosses # {} THEN bosses ELSE DOMAIN admins_list
         IN IF cand = {} THEN admins_list
            ELSE [i \in DOMAIN admins_list |->
                    IF i = FirstMinId(admins_list, cand)
                        THEN Merge(admins_list[i], [permanent |-> TRUE])
                        ELSE admins_list[i]]

\* minted_admins with the slip of carrying the user's id over to the admin.
minted_admins_keeping_id(users) ==
    LET nm == SelectSeq(users, LAMBDA u : RGet(u, "role", "") # "member") IN
    [i \in 1..Len(nm) |->
        Admin(nm[i].id, nm[i].username, nm[i].password, RGet(nm[i], "role", "boss"),
              RGet(nm[i], "name", "Admin"), FALSE)]

\* The loop of ensure_admins_file over users: the admins minted, in order.
minted_admins(users) ==
    LET nm == SelectSeq(users, LAMBDA u : RGet(u, "role", "") # "member") IN
    [i \in 1..Len(nm) |->
        Admin(i, nm[i].username, nm[i].password, RGet(nm[i], "role", "boss"),
              RGet(nm[i], "name", "Admin"), FALSE)]

\* ... and the users that stay.
remaining_users(users) == SelectSeq(users, LAMBDA u : RGet(u, "role", "") = "member")

\* ensure_admins_file(): [ok, store, users_data]; ok is FALSE when it raises.
ensure_admins_file(st, up) ==
    IF ~path_exists(ADMINS_FILE) THEN
        LET users_data == read_json(st, up, USERS_FILE)
            users == ListOf(users_data, "users")
            admins == ensure_one_permanent(minted_admins(users))
            w1 == write_json(st, up, ADMINS_FILE, [admins |-> L(admins)])
            w2 == write_json(w1.store, up, USERS_FILE,
                             Merge(users_data, [users |-> L(remaining_users(users))]))
        IN IF ~w1.ok THEN [ok |-> FALSE, store |-> w1.store, users_data |-> users_data]
           ELSE [ok |-> w2.ok, store |-> w2.store, users_data |-> users_data]
    ELSE
        LET data == read_json(st, up, ADMINS_FILE)
            admins == ensure_one_permanent(ListOf(data, "admins"))
            w == write_json(st, up, ADMINS_FILE, [admins |-> L(admins)])
        IN [ok |-> w.ok, store |-> w.store, users_data |-> EmptyDoc]

\* Action: the app process starts (or restarts): importing app.py runs
\* ensure_admins_file() at line 224; an exception there ends the process.
start_app ==
    LET r == ensure_admins_file(store, mongoUp) IN
    /\ store' = r.store
    /\ app' = IF r.ok THEN "running" ELSE "crashed"
    /\ last' = Raising(Op("ensure_admins_file", ADMINS_FILE, r.users_data, r.ok, EmptyDoc, 0),
                        IF r.ok THEN "" ELSE "TypeError")
    /\ UNCHANGED <<mongoUp, is_vercel, disk, client_file, reqs, backend, vfile, clients>>

\* Action: a handler's call of read_json(filename).
app_read_json(f) ==
    /\ app = "running"
    /\ last' = Op("app.read_json", f, EmptyDoc, TRUE, read_json(store, mongoUp, f), 0)
    /\ UNCHANGED <<store, mongoUp, is_vercel, disk, app, client_file, reqs, backend, vfile, clients>>

\* ------------------------------------------------- app.py request handlers
\* A request body is a document of string fields; data.get(k, default):
PGet(data, k, default) == IF k \in DOMAIN data THEN data[k].v ELSE default

\* MaxId with the slip of taking the length of the list for its greatest id.
MaxId_as_length(list) == Len(list)

\* max([a['id'] for a in admins], default=0)
MaxId(list) ==
    IF list = <<>> THEN 0
    ELSE LET ids == {list[i].id : i \in DOMAIN list}
         IN CHOOSE m \in ids : \A n \in ids : n <= m

\* The first index of list whose record has the id, 0 when there is none.
IndexOfId(list, id) ==
    IF \E i \in DOMAIN list : list[i].id = id
        THEN CHOOSE i \in DOMAIN list :
                list[i].id = id /\ \A j \in DOMAIN list : list[j].id = id => i <= j
        ELSE 0

\* What a handler answers after write_json: Flask turns an exception into 500.
Answer(w, status) == [status |-> IF w.ok THEN status ELSE 500, store |-> w.store]

AdminRoles == {"boss", "manager", "moderator"}

\* add_admin(): [status, store]
add_admin_handler(st, up, data) ==
    LET username == PGet(data, "username", "")
        password == PGet(data, "password", "")
        role == PGet(data, "role", "manager")
        name == PGet(data, "name", username)
        admins_data == read_json(st, up, ADMINS_FILE)
        admins == ListOf(admins_data, "admins")
        new_admin == Admin(MaxId(admins) + 1, username, password, role, name, FALSE)
    IN IF username = "" \/ password = "" \/ role \notin AdminRoles
           THEN [status |-> 400, store |-> st]
       ELSE IF \E i \in DOMAIN admins : admins[i].username = username
           THEN [status |-> 400, store |-> st]
       ELSE Answer(write_json(st, up, ADMINS_FILE,
                              Merge(admins_data, [admins |-> L(Append(admins, new_admin))])), 200)

\* The body of update_admin's loop for the matching admin a.
updated_admin(a, data) ==
    LET u1 == Merge(a, [username |-> PGet(data, "username", a.username)])
        u2 == Merge(u1, [name |-> PGet(data, "name", RGet(u1, "name", u1.username))])
        role == PGet(data, "role", "")
        u3 == IF role \in AdminRoles /\ ~(RGet(u2, "permanent", FALSE) /\ role # "boss")
                  THEN Merge(u2, [role |-> role])
                  ELSE u2
    IN IF PGet(data, "password", "") # ""
           THEN Merge(u3, [password |-> PGet(data, "password", "")])
           ELSE u3

\* update_admin(admin_id): [status, store]
update_admin_handler(st, up, admin_id, data) ==
    LET admins_data == read_json(st, up, ADMINS_FILE)
        admins == ListOf(admins_data, "admins")
        k == IndexOfId(admins, admin_id)
    IN IF k = 0 THEN [status |-> 404, store |-> st]
       ELSE Answer(write_json(st, up, ADMINS_FILE,
                Merge(admins_data,
                      [admins |-> L([admins EXCEPT ![k] = updated_admin(admins[k], data)])])), 200)

\* delete_admin(admin_id): [status, store]
delete_admin_handler(st, up, admin_id) ==
    LET admins_data == read_json(st, up, ADMINS_FILE)
        admins == ListOf(admins_data, "admins")
    IN IF \E i \in DOMAIN admins : admins[i].id = admin_id /\ RGet(admins[i], "permanent", FALSE)
           THEN [status |-> 403, store |-> st]
       ELSE Answer(write_json(st, up, ADMINS_FILE,
                Merge(admins_data,
                      [admins |-> L(SelectSeq(admins, LAMBDA a : a.id # admin_id))])), 200)

\* change_my_password(), my_id being session['user_id']: [status, store]
change_my_password_handler(st, up, my_id, data) ==
    LET new_password == PGet(data, "new_password", "")
        current_password == PGet(data, "current_password", "")
        admins_data == read_json(st, up, ADMINS_FILE)
        admins == ListOf(admins_data, "admins")
        k == IndexOfId(admins, my_id)
    IN IF new_password = "" \/ current_password = "" THEN [status |-> 400, store |-> st]
       ELSE IF k = 0 THEN [status |-> 404, store |-> st]
       ELSE IF RGet(admins[k], "password", "") # current_password
           THEN [status |-> 403, store |-> st]
       ELSE Answer(write_json(st, up, ADMINS_FILE,
                Merge(admins_data,
                      [admins |-> L([admins EXCEPT ![k] =
                                        Merge(@, [password |-> new_password])])])), 200)

\* update_message(): [status, store]
update_message_handler(st, up, data) ==
    Answer(write_json(st, up, MESSAGE_FILE, [message |-> S(PGet(data, "message", ""))]), 200)

\* encrypt_text / decrypt_text (Fernet under the session secret), on the
\* passwords the model uses; decrypt_text raises on anything else.
Passwords == {"pw", "new"}
encrypt_text(plain) == IF plain = "pw" THEN "gAAAAA.pw" ELSE "gAAAAA.new"
is_token(token) == \E p \in Passwords : encrypt_text(p) = token
decrypt_text(token) == CHOOSE p \in Passwords : encrypt_text(p) = token

\* The body of import_all_data's loop over admins_list.
normalized_admin(a) ==
    LET pwd == RGet(a, "password", "")
        a_copy == IF RGet(a, "password_encrypted", FALSE) /\ is_token(pwd)
                      THEN Merge(a, [password |-> decrypt_text(pwd)])
                      ELSE a
    IN [k \in DOMAIN a_copy \ {"password_encrypted"} |-> a_copy[k]]

\* One "if key in data and isinstance(data[key], dict): write_json(...)" step.
import_step(w, up, data, key, filename) ==
    IF w.ok /\ key \in DOMAIN data /\ data[key].t = "map"
        THEN write_json(w.store, up, filename, data[key].v)
        ELSE w

\* import_all_data(): [status, store]
import_all_data_handler(st, up, data) ==
    LET w0 == [ok |-> TRUE, store |-> st]
        w1 == import_step(w0, up, data, "users", USERS_FILE)
        w2 == import_step(w1, up, data, "entries", ENTRIES_FILE)
        w3 == import_step(w2, up, data, "message", MESSAGE_FILE)
        admins_list == IF "admins" \notin DOMAIN data THEN <<>>
                       ELSE IF data["admins"].t = "map" THEN ListOf(data["admins"].v, "admins")
                       ELSE IF data["admins"].t = "list" THEN data["admins"].v
                       ELSE <<>>
        normalized_admins == [i \in DOMAIN admins_list |-> normalized_admin(admins_list[i])]
        w4 == IF w3.ok /\ "admins" \in DOMAIN data
                  THEN write_json(w3.store, up, ADMINS_FILE, [admins |-> L(normalized_admins)])
                  ELSE w3
    IN IF data = EmptyDoc THEN [status |-> 400, store |-> st]
       ELSE Answer(w4, 200)

\* not data.get(k): the field is missing or empty
Missing(data, k) == PGet(data, k, "") = ""

\* add_member's new_member for the users list it read.
new_member(users, data) ==
    [id |-> MaxId(users) + 1,
     username |-> PGet(data, "username", ""),
     password |-> PGet(data, "password", ""),
     role |-> "member",
     postname |-> PGet(data, "postname", ""),
     callsign |-> PGet(data, "callsign", ""),
     name |-> PGet(data, "name", "")]

\* add_member_prepare with the slip of writing back the new member alone.
add_member_prepare_dropping_users(users_data, data) ==
    LET users == ListOf(users_data, "users") IN
    IF Missing(data, "username") \/ Missing(data, "password") \/ Missing(data, "name")
        THEN [status |-> 400, doc |-> EmptyDoc]
        ELSE [status |-> 0,
              doc |-> Merge(users_data, [users |-> L(<<new_member(users, data)>>)])]

\* add_member up to its write_json call: [status, doc]; status 400 when the
\* payload is rejected, 0 when doc is to be written.
add_member_prepare(users_data, data) ==
    LET users == ListOf(users_data, "users") IN
    IF Missing(data, "username") \/ Missing(data, "password") \/ Missing(data, "name")
        THEN [status |-> 400, doc |-> EmptyDoc]
        ELSE [status |-> 0,
              doc |-> Merge(users_data, [users |-> L(Append(users, new_member(users, data)))])]

\* add_member(): [status, store]
add_member_handler(st, up, data) ==
    LET p == add_member_prepare(read_json(st, up, USERS_FILE), data) IN
    IF p.status = 400 THEN [status |-> 400, store |-> st]
    ELSE Answer(write_json(st, up, USERS_FILE, p.doc), 200)

\* The body of update_member's loop for the matching user.
updated_member(user, data) ==
    Merge(user,
          [username |-> PGet(data, "username", user.username),
           password |-> PGet(data, "password", user.password),
           name |-> PGet(data, "name", user.name),
           postname |-> PGet(data, "postname", RGet(user, "postname", "")),
           callsign |-> PGet(data, "callsign", RGet(user, "callsign", ""))])

\* update_member(member_id): [status, store]; an id no user has changes nothing
\* and is answered with success all the same.
update_member_handler(st, up, member_id, data) ==
    LET users_data == read_json(st, up, USERS_FILE)
        users == ListOf(users_data, "users")
        k == IndexOfId(users, member_id)
        users2 == IF k = 0 THEN users ELSE [users EXCEPT ![k] = updated_member(users[k], data)]
    IN Answer(write_json(st, up, USERS_FILE, Merge(users_data, [users |-> L(users2)])), 200)

\* delete_member(member_id): [status, store]
delete_member_handler(st, up, member_id) ==
    LET users_data == read_json(st, up, USERS_FILE)
        users == ListOf(users_data, "users")
    IN Answer(write_json(st, up, USERS_FILE,
                Merge(users_data, [users |-> L(SelectSeq(users, LAMBDA u : u.id # member_id))])),
              200)

\* add_entry's new_entry for the entries list it read and the caller's session.
new_entry(entries, sess, data) ==
    [id |-> MaxId(entries) + 1,
     member_id |-> sess.user_id,
     member_name |-> sess.name,
     date |-> PGet(data, "date", ""),
     time_in |-> PGet(data, "time_in", ""),
     time_out |-> PGet(data, "time_out", ""),
     total_hours |-> PGet(data, "total_hours", ""),
     out_of_service |-> PGet(data, "out_of_service", "00:00")]

\* add_entry(): [status, store]
add_entry_handler(st, up, sess, data) ==
    LET entries_data == read_json(st, up, ENTRIES_FILE)
        entries == ListOf(entries_data, "entries")
    IN IF \E k \in {"date", "time_in", "time_out", "total_hours"} : Missing(data, k)
           THEN [status |-> 400, store |-> st]
       ELSE Answer(write_json(st, up, ENTRIES_FILE,
                Merge(entries_data,
                      [entries |-> L(Append(entries, new_entry(entries, sess, data)))])), 200)

\* delete_entry(entry_id): [status, store]; a member removes its own entries only.
delete_entry_handler(st, up, sess, entry_id) ==
    LET entries_data == read_json(st, up, ENTRIES_FILE)
        entries == ListOf(entries_data, "entries")
        kept == IF sess.role = "member"
                    THEN SelectSeq(entries, LAMBDA e :
                            ~(e.id = entry_id /\ e.member_id = sess.user_id))
                    ELSE SelectSeq(entries, LAMBDA e : e.id # entry_id)
    IN Answer(write_json(st, up, ENTRIES_FILE, Merge(entries_data, [entries |-> L(kept)])), 200)

\* update_entry's assignments to the entry found (lines 476-480)
updated_entry(entry, data) ==
    [entry EXCEPT !.date = PGet(data, "date", @),
                  !.time_in = PGet(data, "time_in", @),
                  !.time_out = PGet(data, "time_out", @),
                  !.total_hours = PGet(data, "total_hours", @),
                  !.out_of_service = PGet(data, "out_of_service", @)]

\* The entries list after update_entry's loop, were the loop not left early.
edited_entries(entries, entry_id, data) ==
    LET i == IndexOfId(entries, entry_id)
    IN IF i = 0 THEN entries ELSE [entries EXCEPT ![i] = updated_entry(@, data)]

update_entry_handler_editing_first(st, up, sess, entry_id, data) ==
    LET entries_data == read_json(st, up, ENTRIES_FILE)
        entries == ListOf(entries_data, "entries")
        i == IndexOfId(entries, entry_id)
        w == write_json(st, up, ENTRIES_FILE,
                Merge(entries_data, [entries |-> L(edited_entries(entries, entry_id, data))]))
    IN IF i # 0 /\ sess.role = "member" /\ entries[i].member_id # sess.user_id
           THEN [status |-> 403, store |-> w.store]
       ELSE Answer(w, 200)

\* update_entry(entry_id): [status, store]; a member edits its own entries only.
update_entry_handler(st, up, sess, entry_id, data) ==
    LET entries_data == read_json(st, up, ENTRIES_FILE)
        entries == ListOf(entries_data, "entries")
        i == IndexOfId(entries, entry_id)
    IN IF i # 0 /\ sess.role = "member" /\ entries[i].member_id # sess.user_id
           THEN [status |-> 403, store |-> st]
       ELSE Answer(write_json(st, up, ENTRIES_FILE,
                Merge(entries_data,
                      [entries |-> L(edited_entries(entries, entry_id, data))])), 200)

\* Request bodies offered to the handlers.
AddAdminPayloads ==
    { [username |-> S("eve"), password |-> S("pw"), role |-> S("manager")],
      [username |-> S("bob"), password |-> S("pw")],
      [username |-> S("eve"), password |-> S("pw"), role |-> S("owner")] }

UpdateAdminPayloads ==
    { [role |-> S("manager")], [role |-> S("boss")] }

PasswordPayloads ==
    { [current_password |-> S("pw"), new_password |-> S("new")],
      [current_password |-> S("bad"), new_password |-> S("new")] }

MessagePayloads == { [message |-> S("hello")] }

ExportedBob ==
    Merge(Admin(1, "bob", encrypt_text("pw"), "boss", "Bob", TRUE), [password_encrypted |-> TRUE])

ImportBundles ==
    { [admins |-> M([admins |-> L(<<>>)])],
      [users |-> M([users |-> L(<<Alice>>)]), admins |-> M([admins |-> L(<<ExportedBob>>)])],
      [message |-> M([message |-> S("hello")]),
       admins |-> L(<<Admin(1, "carol", "pw", "manager", "Carol", FALSE)>>)],
      [message |-> M([message |-> L(<<>>)])],
      EmptyDoc }

AdminIds == 1..(MaxAdmins + 1)

MemberPayloads ==
    { [username |-> S("dan"), password |-> S("pw"), name |-> S("Dan")],
      [username |-> S("erin"), password |-> S("pw"), name |-> S("Erin")],
      [username |-> S("dan"), password |-> S("pw")] }

UpdateMemberPayloads == { [username |-> S("erin")] }

RenameAdminPayloads == { [username |-> S("eve")] }

MemberIds == 1..(MaxUsers + 1)

EntryPayloads ==
    { [date |-> S("d1"), time_in |-> S("09:00"), time_out |-> S("17:00"), total_hours |-> S("8")],
      [date |-> S("d1"), time_in |-> S("09:00")] }

EntryIds == 1..(MaxEntries + 1)

\* The sessions of the callers: session['user_id'], session['name'], session['role'].
Sessions ==
    { [user_id |-> 1, name |-> "Alice", role |-> "member"],
      [user_id |-> 1, name |-> "Bob", role |-> "boss"] }

\* The callers of update_entry: the sessions above and a second member.
EditorSessions == Sessions \cup { [user_id |-> 2, name |-> "Dan", role |-> "member"] }

UpdateEntryPayloads == { [date |-> S("d2")] }

\* Requests that append a record to a list, and those that remove records.
AddRequests == {"add_member", "add_entry", "add_admin"}
DeleteRequests == {"delete_member", "delete_entry", "delete_admin"}

\* The ids of the records of list before that list after lacks.
RemovedIds(before, after) ==
    {before[i].id : i \in DOMAIN before} \ {after[i].id : i \in DOMAIN after}

\* The list of a file in the store, as a reader finds it.
StoredList(st, f) ==
    LET c == collection_map[f]
        doc == IF st[c] = <<>> THEN EmptyDoc ELSE StripId(Head(st[c]))
    IN ListOf(doc, FILE_TO_COLLECTION[f][2])

\* The rest of a request handler's step.
Respond(name, f, data, r) ==
    /\ store' = r.store
    /\ last' = [Op(name, f, data, r.status = 200, EmptyDoc, r.status) EXCEPT !.freed =
                    IF name \in DeleteRequests
                        THEN RemovedIds(StoredList(store, f), StoredList(r.store, f))
                    ELSE IF name \in AddRequests /\ last.op \in DeleteRequests /\ last.f = f
                        THEN last.freed
                    ELSE {}]
    /\ UNCHANGED <<mongoUp, is_vercel, disk, app, client_file, reqs, backend, vfile, clients>>

\* Action: POST /api/admins
add_admin(data) ==
    /\ app = "running"
    /\ Len(ListOf(read_json(store, mongoUp, ADMINS_FILE), "admins")) < MaxAdmins
    /\ Respond("add_admin", ADMINS_FILE, EmptyDoc, add_admin_handler(store, mongoUp, data))

\* Action: PUT /api/admins/<admin_id>
update_admin(admin_id, data) ==
    /\ app = "running"
    /\ Respond("update_admin", ADMINS_FILE, EmptyDoc,
               update_admin_handler(store, mongoUp, admin_id, data))

\* Action: DELETE /api/admins/<admin_id>
delete_admin(admin_id) ==
    /\ app = "running"
    /\ Respond("delete_admin", ADMINS_FILE, EmptyDoc,
               delete_admin_handler(store, mongoUp, admin_id))

\* Action: PUT /api/admins/me/password
change_my_password(my_id, data) ==
    /\ app = "running"
    /\ Respond("change_my_password", ADMINS_FILE, EmptyDoc,
               change_my_password_handler(store, mongoUp, my_id, data))

\* Action: POST /api/members
add_member(data) ==
    /\ app = "running"
    /\ Len(ListOf(read_json(store, mongoUp, USERS_FILE), "users")) < MaxUsers
    /\ Respond("add_member", USERS_FILE, data, add_member_handler(store, mongoUp, data))

\* ---- add_member served by a worker thread, statement by statement.
\* Flask serves each request on a thread of its own and app.py takes no lock:
\* between read_json and write_json, and inside _write_to_mongodb between
\* delete_many and insert_one, other requests run.
Workers == 1..MaxWorkers

\* A worker's request: pc is "idle", "write" (read_json done, write_json
\* ahead), "insert" (delete_many done, insert_one ahead) or "done"; snap is
\* the users_data it read, doc the users_data it writes back; inserted tells
\* that its insert_one was carried out; fell_back tells that snap is the {}
\* _read_from_mongodb returned for want of a client.
Request(pc, data, snap, doc, status, inserted) ==
    [pc |-> pc, data |-> data, snap |-> snap, doc |-> doc, status |-> status,
     inserted |-> inserted, fell_back |-> FALSE]

\* The request r whose read_json fell back (b) to the empty mapping.
FellBack(r, b) == [r EXCEPT !.fell_back = b]

IdleRequest == Request("idle", EmptyDoc, EmptyDoc, EmptyDoc, 0, FALSE)

\* Action: worker w takes a POST /api/members and runs add_member up to its
\* write_json call (lines 359-381).
add_member_read(w, data) ==
    LET users_data == read_json(store, mongoUp, USERS_FILE)
        p == add_member_prepare(users_data, data)
    IN /\ app = "running"
       /\ reqs[w].pc \in {"idle", "done"}
       /\ Len(ListOf(users_data, "users")) < MaxUsers
       /\ reqs' = [reqs EXCEPT ![w] =
                      IF p.status = 400
                          THEN Request("done", data, users_data, EmptyDoc, 400, FALSE)
                          ELSE FellBack(Request("write", data, users_data, p.doc, 0, FALSE),
                                        is_vercel /\ ~mongoUp)]
       /\ last' = Op("add_member.read_json", USERS_FILE, data, p.status # 400, users_data,
                     p.status)
       /\ UNCHANGED <<store, mongoUp, is_vercel, disk, app, client_file, backend, vfile, clients>>

\* Action: worker w enters write_json(USERS_FILE, users_data).  In direct
\* mode _write_to_mongodb returns at once without a client and else runs
\* delete_many({}) (lines 133-153); with the virtual filesystem the write is
\* the one replace_one of close().
write_delete_many(w) ==
    LET r == reqs[w]
        v == virtual_write(store, mongoUp, USERS_FILE, r.doc)
    IN /\ r.pc = "write"
       /\ store' = IF ~is_vercel THEN v.store
                   ELSE IF ~mongoUp THEN store
                   ELSE [store EXCEPT !["users"] = delete_many(@)]
       /\ reqs' = [reqs EXCEPT ![w] =
                      IF ~is_vercel
                          THEN Request("done", r.data, r.snap, r.doc,
                                       IF v.ok THEN 200 ELSE 500, v.ok)
                      ELSE IF ~mongoUp
                          THEN Request("done", r.data, r.snap, r.doc, 200, FALSE)
                      ELSE FellBack(Request("insert", r.data, r.snap, r.doc, 0, FALSE),
                                    r.fell_back)]
       /\ last' = Op("delete_many", USERS_FILE, r.doc, is_vercel /\ mongoUp, EmptyDoc, 0)
       /\ UNCHANGED <<mongoUp, is_vercel, disk, app, client_file, backend, vfile, clients>>

\* Action: worker w runs insert_one(data) (line 154) and add_member answers;
\* the exception of a store that stopped answering is swallowed.
write_insert_one(w) ==
    LET r == reqs[w] IN
    /\ r.pc = "insert"
    /\ store' = IF mongoUp THEN [store EXCEPT !["users"] = insert_one(@, r.doc)] ELSE store
    /\ reqs' = [reqs EXCEPT ![w] = Request("done", r.data, r.snap, r.doc, 200, mongoUp)]
    /\ last' = Op("insert_one", USERS_FILE, r.doc, mongoUp, EmptyDoc, 200)
    /\ UNCHANGED <<mongoUp, is_vercel, disk, app, client_file, backend, vfile, clients>>

\* Action: PUT /api/members/<member_id>
update_member(member_id, data) ==
    /\ app = "running"
    /\ Respond("update_member", USERS_FILE, EmptyDoc,
               update_member_handler(store, mongoUp, member_id, data))

\* Action: DELETE /api/members/<member_id>
delete_member(member_id) ==
    /\ app = "running"
    /\ Respond("delete_member", USERS_FILE, EmptyDoc,
               delete_member_handler(store, mongoUp, member_id))

\* Action: POST /api/entries
add_entry(sess, data) ==
    /\ app = "running"
    /\ Len(ListOf(read_json(store, mongoUp, ENTRIES_FILE), "entries")) < MaxEntries
    /\ Respond("add_entry", ENTRIES_FILE, data, add_entry_handler(store, mongoUp, sess, data))

\* Action: PUT /api/entries/<entry_id>
update_entry(sess, entry_id, data) ==
    /\ app = "running"
    /\ Respond("update_entry", ENTRIES_FILE, data,
               update_entry_handler(store, mongoUp, sess, entry_id, data))

\* Action: DELETE /api/entries/<entry_id>
delete_entry(sess, entry_id) ==
    /\ app = "running"
    /\ Respond("delete_entry", ENTRIES_FILE, EmptyDoc,
               delete_entry_handler(store, mongoUp, sess, entry_id))

\* Action: PUT /api/message
update_message(data) ==
    /\ app = "running"
    /\ Respond("update_message", MESSAGE_FILE, data, update_message_handler(store, mongoUp, data))

\* Action: POST /api/import-all
import_all_data(data) ==
    /\ app = "running"
    /\ Respond("import_all_data", "", EmptyDoc, import_all_data_handler(store, mongoUp, data))

\* ------------------------------------------------------- migration scripts
\* has_existing_data / has_data: some collection holds a document.
has_existing_data(st) == \E c \in Collections : count_documents(st[c]) > 0

\* migrate_to_mongodb.py: the order of files_to_migrate.
MigrateOrder == <<USERS_FILE, ENTRIES_FILE, MESSAGE_FILE, ADMINS_FILE, ADMIN_SETTINGS_FILE>>

\* migrate_all's loop from file i on: a file on disk is inserted as one more document.
RECURSIVE migrate_files(_, _)
migrate_files(st, i) ==
    IF i > Len(MigrateOrder) THEN st
    ELSE LET filepath == MigrateOrder[i]
             c == collection_map[filepath]
         IN IF ~path_exists(filepath) THEN migrate_files(st, i + 1)
            ELSE migrate_files([st EXCEPT ![c] = insert_one(@, disk[filepath][1])], i + 1)

\* migrate_virtual_storage.py: the order of its FILE_TO_COLLECTION.
VirtualMigrateOrder == <<USERS_FILE, ADMINS_FILE, ENTRIES_FILE, MESSAGE_FILE, ADMIN_SETTINGS_FILE>>

\* migrate_json_to_mongodb's loop: the collection is cleared, then the file inserted.
RECURSIVE migrate_virtual_files(_, _)
migrate_virtual_files(st, i) ==
    IF i > Len(VirtualMigrateOrder) THEN st
    ELSE LET file_path == VirtualMigrateOrder[i]
             c == collection_map[file_path]
         IN IF ~path_exists(file_path) THEN migrate_virtual_files(st, i + 1)
            ELSE migrate_virtual_files(
                    [st EXCEPT ![c] = insert_one(delete_many(@), disk[file_path][1])], i + 1)

\* migration_proceeds with the slip of never looking at the answer.
migration_proceeds_unasked(st, up, response) == up

\* Whether the script goes on to its loop: the store answers, and the operator
\* said 'yes' if it was asked.
migration_proceeds(st, up, response) == up /\ (has_existing_data(st) => response = "yes")

\* What the operator may type at the prompt.
Responses == {"yes", "no", "YES", " yes "}

\* str.lower() and str.strip() on the answers of the model.
lower(s) == CASE s = "YES" -> "yes" [] OTHER -> s
strip(s) == CASE s = " yes " -> "yes" [] OTHER -> s

\* Action: python migrate_to_mongodb.py, the operator answering response
\* (input(...).strip().lower() is compared with 'yes').
migrate_all(response) ==
    /\ \A c \in Collections : Len(store[c]) < MaxDocs
    /\ store' = IF migration_proceeds(store, mongoUp, lower(strip(response)))
                    THEN migrate_files(store, 1) ELSE store
    /\ last' = Op("migrate_all", response, EmptyDoc,
                  migration_proceeds(store, mongoUp, lower(strip(response)))
                      /\ \E f \in Files : path_exists(f),
                  EmptyDoc, 0)
    /\ UNCHANGED <<mongoUp, is_vercel, disk, app, client_file, reqs, backend, vfile, clients>>

\* Action: python migrate_virtual_storage.py, the operator answering response
\* (response.lower() is compared with 'yes').
migrate_json_to_mongodb(response) ==
    /\ store' = IF migration_proceeds(store, mongoUp, lower(response))
                    THEN migrate_virtual_files(store, 1) ELSE store
    /\ last' = Op("migrate_json_to_mongodb", response, EmptyDoc,
                  migration_proceeds(store, mongoUp, lower(response))
                      /\ \A f \in Files : path_exists(f),
                  EmptyDoc, 0)
    /\ UNCHANGED <<mongoUp, is_vercel, disk, app, client_file, reqs, backend, vfile, clients>>

\* ------------------------------- virtual_storage.py: backend and file object
\* The class MongoDBBackend right after its class statement: no instance yet.
\* inits and used are history: how often __init__ ran its body, and whether a
\* caller has used the instance it was handed.  pc is each thread's position
\* in MongoDBBackend(): "idle", "new" (__new__ returned), "init" (the
\* hasattr test passed, the assignments are ahead) or "ready".
NoBackend ==
    [instance |-> FALSE, initialized |-> FALSE,
     client |-> "None", db |-> "None", attempted |-> FALSE,
     inits |-> 0, used |-> FALSE,
     pc |-> [w \in Workers |-> "idle"]]

\* The body of MongoDBBackend.__init__ (lines 59-62).
backend_init_body(b) ==
    [b EXCEPT !.initialized = TRUE, !.client = "None", !.db = "None",
              !.attempted = FALSE, !.inits = @ + 1]

\* MongoDBBackend() by a caller that no other thread interrupts.
backend_construct(b) ==
    LET made == [b EXCEPT !.instance = TRUE]
    IN IF made.initialized THEN made ELSE backend_init_body(made)

\* Action: thread w enters MongoDBBackend(); __new__ creates the instance
\* under _lock unless there is one.
backend_new(w) ==
    /\ ~is_vercel
    /\ backend.pc[w] = "idle"
    /\ backend' = [backend EXCEPT !.instance = TRUE, !.pc[w] = "new"]
    /\ last' = Op("MongoDBBackend.__new__", "", EmptyDoc, TRUE, EmptyDoc, w)
    /\ UNCHANGED <<store, mongoUp, is_vercel, disk, app, client_file, reqs, vfile, clients>>

\* Action: thread w evaluates `not hasattr(self, '_initialized')`.
backend_init_test(w) ==
    /\ backend.pc[w] = "new"
    /\ backend' = [backend EXCEPT !.pc[w] = IF backend.initialized THEN "ready" ELSE "init"]
    /\ last' = Op("MongoDBBackend.__init__ test", "", EmptyDoc, TRUE, EmptyDoc, w)
    /\ UNCHANGED <<store, mongoUp, is_vercel, disk, app, client_file, reqs, vfile, clients>>

\* Action: thread w runs the assignments of __init__.
backend_init_assign(w) ==
    /\ backend.pc[w] = "init"
    /\ backend' = [backend_init_body(backend) EXCEPT !.pc[w] = "ready"]
    /\ last' = Op("MongoDBBackend.__init__", "", EmptyDoc, TRUE, EmptyDoc, w)
    /\ UNCHANGED <<store, mongoUp, is_vercel, disk, app, client_file, reqs, vfile, clients>>

\* Action: thread w calls get_collection on the instance it was handed.
backend_get_collection(w) ==
    /\ backend.pc[w] = "ready"
    /\ backend' = [backend EXCEPT !.used = TRUE, !.pc[w] = "idle"]
    /\ last' = Raising(Op("MongoDBBackend.get_collection", "", EmptyDoc,
                          backend_db_connected, EmptyDoc, w),
                       IF backend_db_connected THEN "" ELSE "TypeError")
    /\ UNCHANGED <<store, mongoUp, is_vercel, disk, app, client_file, reqs, vfile, clients>>

\* virtual_storage.FILE_MAPPINGS: the same table as app.collection_map.
FILE_MAPPINGS == collection_map

\* The paths a program passes to open().
Paths ==
    Files \cup {"config.json", "./data/users.json", "data\\users.json",
                "data/users.json.bak", "/srv/app/data/users.json"}

\* os.path.normpath on a POSIX host
normpath(path) == IF path = "./data/users.json" THEN "data/users.json" ELSE path

\* str.replace('\\', '/')
slashes(path) == IF path = "data\\users.json" THEN "data/users.json" ELSE path

normalize_path(path) == slashes(normpath(path))

is_virtual_file_unnormalized(path) == path \in DOMAIN FILE_MAPPINGS

is_virtual_file(path) == normalize_path(path) \in DOMAIN FILE_MAPPINGS

get_collection_name(path) == FILE_MAPPINGS[normalize_path(path)]

\* json.dumps and json.loads: the text of a document, and the document of a text.
dumps(obj) == [json |-> obj]
loads(text) == text.json

\* The mode strings a program opens a file with; `ch in mode`.
Modes == {"r", "w", "a"}
InMode(ch, mode) == ch = mode

\* No file object held.
NoFile == [kind |-> "none", path |-> "", mode |-> "", buffer |-> <<>>, state |-> "none"]

\* VirtualJSONFile.__init__ (lines 137-150): the buffer is <<>> when empty.
VirtualJSONFile(st, up, path, mode) ==
    [kind |-> "virtual", path |-> path, mode |-> mode,
     buffer |-> IF InMode("r", mode)
                    THEN <<dumps(virtual_read(st, up, normalize_path(path)))>>
                    ELSE <<>>,
     state |-> "open"]

\* _original_open(file, mode, buffering, encoding, errors, newline, closefd, opener)
original_open(file, mode) ==
    [kind |-> "real", path |-> file, mode |-> mode, buffer |-> <<>>, state |-> "open"]

patched_open(st, up, file, mode) ==
    IF is_virtual_file(file) THEN VirtualJSONFile(st, up, file, mode)
    ELSE original_open(file, mode)

\* Action: open(file, mode) in a process that activated the virtual filesystem.
open_file(file, mode) ==
    /\ ~is_vercel
    /\ vfile.state # "open"
    /\ vfile' = patched_open(store, mongoUp, file, mode)
    /\ backend' = IF is_virtual_file(file)
                      THEN [backend_construct(backend) EXCEPT
                                !.used = @ \/ InMode("r", mode)]
                      ELSE backend
    /\ last' = Op("open", file, [mode |-> S(mode)], TRUE, EmptyDoc, 0)
    /\ UNCHANGED <<store, mongoUp, is_vercel, disk, app, client_file, reqs, clients>>

\* Action: json.load(f) on the virtual file held (patched_json_load).
json_load ==
    /\ vfile.kind = "virtual" /\ vfile.state = "open"
    /\ InMode("r", vfile.mode)
    /\ last' = Op("json.load", vfile.path, EmptyDoc, TRUE, loads(vfile.buffer[1]), 0)
    /\ UNCHANGED <<store, mongoUp, is_vercel, disk, app, client_file, reqs, backend, vfile, clients>>

\* The documents a program dumps into a file.
DumpInputs == UNION {WriteInputs(f) : f \in Files}

\* Action: json.dump(obj, f) on the virtual file held (patched_json_dump),
\* once per file object.
json_dump(obj) ==
    /\ vfile.kind = "virtual" /\ vfile.state = "open"
    /\ (InMode("w", vfile.mode) \/ InMode("a", vfile.mode))
    /\ vfile.buffer = <<>>
    /\ vfile' = [vfile EXCEPT !.buffer = <<dumps(obj)>>]
    /\ last' = Op("json.dump", vfile.path, obj, TRUE, EmptyDoc, 0)
    /\ UNCHANGED <<store, mongoUp, is_vercel, disk, app, client_file, reqs, backend, clients>>

\* Action: f.flush(); io.StringIO.flush, which VirtualJSONFile leaves as it is.
flush_file ==
    /\ vfile.kind = "virtual" /\ vfile.state = "open"
    /\ last' = Op("flush", vfile.path, EmptyDoc, TRUE, EmptyDoc, 0)
    /\ UNCHANGED <<store, mongoUp, is_vercel, disk, app, client_file, reqs, backend, vfile, clients>>

\* The test of close() for persisting the buffer (lines 199-205).
close_writes(f) ==
    /\ f.state # "closed"
    /\ (InMode("w", f.mode) \/ InMode("a", f.mode))
    /\ f.buffer # <<>>

\* VirtualJSONFile.close (lines 197-209) with _write_to_mongodb (181-195):
\* the exception of the write leaves the method before _closed is set.
virtual_close(st, up, f) ==
    IF f.state = "closed" THEN [ok |-> TRUE, store |-> st, file |-> f, exc |-> ""]
    ELSE IF close_writes(f)
        THEN LET r == virtual_write(st, up, normalize_path(f.path), loads(f.buffer[1]))
             IN IF r.ok
                    THEN [ok |-> TRUE, store |-> r.store,
                          file |-> [f EXCEPT !.state = "closed"], exc |-> ""]
                    ELSE [ok |-> FALSE, store |-> st,
                          file |-> [f EXCEPT !.state = "failed"],
                          exc |-> IF backend_db_connected
                                      THEN "ServerSelectionTimeoutError" ELSE "TypeError"]
        ELSE [ok |-> TRUE, store |-> st, file |-> [f EXCEPT !.state = "closed"], exc |-> ""]

\* Action: f.close(), or the end of the `with` block.
close_file ==
    /\ vfile.kind # "none"
    /\ LET r == IF vfile.kind = "virtual" THEN virtual_close(store, mongoUp, vfile)
                ELSE [ok |-> TRUE, store |-> store,
                      file |-> [vfile EXCEPT !.state = "closed"], exc |-> ""]
       IN /\ store' = r.store
          /\ vfile' = r.file
          /\ backend' = IF vfile.kind = "virtual" /\ close_writes(vfile)
                            THEN [backend EXCEPT !.used = TRUE] ELSE backend
          /\ last' = Raising(Op("close", vfile.path, EmptyDoc, r.ok, EmptyDoc, 0), r.exc)
    /\ UNCHANGED <<mongoUp, is_vercel, disk, app, client_file, reqs, clients>>

\* --------------------------------------- MongoClient objects (app.py, db.py)
\* built counts the MongoClient objects get_mongo_client has constructed;
\* db_client and db_db are MongoDBConnection._client and ._db being set, and
\* db_built counts the MongoClient objects MongoDBConnection has constructed.
NoClients == [built |-> 0, db_client |-> FALSE, db_db |-> FALSE, db_built |-> 0]

\* Action: app.get_mongo_client(), called by _read_from_mongodb and by
\* _write_to_mongodb on every call.
get_mongo_client ==
    /\ is_vercel
    /\ clients.built < MaxClients
    /\ clients' = [clients EXCEPT !.built = @ + 1]
    /\ last' = Op("get_mongo_client", "", EmptyDoc, mongoUp, EmptyDoc, 0)
    /\ UNCHANGED <<store, mongoUp, is_vercel, disk, app, client_file, reqs, backend, vfile>>

\* Action: db.get_db(): MongoDBConnection() followed by its get_db().
db_get_db ==
    /\ clients' = IF clients.db_client THEN clients
                  ELSE [clients EXCEPT !.db_client = TRUE, !.db_built = @ + 1,
                                       !.db_db = mongoUp]
    /\ last' = Raising(Op("db.get_db", "", EmptyDoc, clients'.db_db, EmptyDoc, 0),
                       IF clients'.db_db THEN "" ELSE "RuntimeError")
    /\ UNCHANGED <<store, mongoUp, is_vercel, disk, app, client_file, reqs, backend, vfile>>

\* ------------------------------------------------------------- environment
\* Action: the MongoDB server stops answering.
store_goes_down ==
    /\ mongoUp
    /\ mongoUp' = FALSE
    /\ last' = Op("store_goes_down", "", EmptyDoc, TRUE, EmptyDoc, 0)
    /\ UNCHANGED <<store, is_vercel, disk, app, client_file, reqs, backend, vfile, clients>>

\* Action: the MongoDB server answers again.
store_comes_up ==
    /\ ~mongoUp
    /\ mongoUp' = TRUE
    /\ last' = Op("store_comes_up", "", EmptyDoc, TRUE, EmptyDoc, 0)
    /\ UNCHANGED <<store, is_vercel, disk, app, client_file, reqs, backend, vfile, clients>>

\* The legacy flat files a deployment may carry under data/.
NoFiles == [f \in Files |-> <<>>]

LegacyUsers == [NoFiles EXCEPT ![USERS_FILE] = <<[users |-> L(<<Alice, Bob>>)]>>]

LegacyManagers == [NoFiles EXCEPT ![USERS_FILE] = <<[users |-> L(<<Carol, Alice, Bob>>)]>>]

LegacyNoBoss == [NoFiles EXCEPT ![USERS_FILE] = <<[users |-> L(<<Alice, Carol>>)]>>]

LegacyAll ==
    [f \in Files |->
        CASE f = USERS_FILE -> <<[users |-> L(<<Alice>>)]>>
          [] f = ENTRIES_FILE -> <<[entries |-> L(<<EntryA>>)]>>
          [] f = MESSAGE_FILE -> <<[message |-> S("hello")]>>
          [] f = ADMINS_FILE -> <<[admins |-> L(<<Admin(1, "bob", "pw", "boss", "Bob", FALSE)>>)]>>
          [] f = ADMIN_SETTINGS_FILE -> <<[theme |-> S("dark")]>>]

DiskScenarios == {NoFiles, LegacyUsers, LegacyManagers, LegacyNoBoss, LegacyAll}

\* ------------------------------------------------------------ specification
\* Before any process has run: an empty database.
InitStore ==
    /\ store = [c \in Collections |-> <<>>]
    /\ mongoUp = TRUE
    /\ app = "stopped"
    /\ reqs = [w \in Workers |-> IdleRequest]
    /\ backend = NoBackend
    /\ vfile = NoFile
    /\ clients = NoClients
    /\ last = Op("init", "", EmptyDoc, TRUE, EmptyDoc, 0)

Init ==
    /\ InitStore
    /\ is_vercel \in BOOLEAN
    /\ disk \in DiskScenarios
    /\ client_file \in Files

\* The steps of the database server.
NextServer ==
    \/ store_goes_down
    \/ store_comes_up

\* The steps of the operator who runs the migration scripts.
NextMigration ==
    \/ \E response \in Responses : migrate_all(response)
    \/ \E response \in Responses : migrate_json_to_mongodb(response)

\* The steps of a program that calls storage_adapter.
NextAdapter ==
    \/ adapter_read_json(client_file)
    \/ \E data \in WriteInputs(client_file) : adapter_write_json(client_file, data)
    \/ \E raw \in RawInputs(client_file) : call_ensure_structure(client_file, raw)
    \/ initialize_storage

\* The steps of the app process and of its clients.
NextApp ==
    \/ start_app
    \/ \E f \in Files : app_read_json(f)
    \/ \E data \in AddAdminPayloads : add_admin(data)
    \/ \E id \in AdminIds : \E data \in UpdateAdminPayloads : update_admin(id, data)
    \/ \E id \in AdminIds : delete_admin(id)
    \/ \E id \in AdminIds : \E data \in PasswordPayloads : change_my_password(id, data)
    \/ \E data \in MessagePayloads : update_message(data)
    \/ \E data \in ImportBundles : import_all_data(data)


\* The storage adapter's caller, the migration scripts and the server.
InitAdapter ==
    /\ InitStore
    /\ is_vercel = TRUE
    /\ disk \in {NoFiles, LegacyAll}
    /\ client_file \in Files \cup UnknownFiles

SpecAdapter == InitAdapter /\ [][NextAdapter \/ NextMigration \/ NextServer]_vars

\* The app process, its clients, the migration script written for it
\* (migrate_virtual_storage.py) and the server.
InitApp ==
    /\ InitStore
    /\ is_vercel \in BOOLEAN
    /\ disk \in DiskScenarios
    /\ client_file = USERS_FILE

NextAppSystem ==
    \/ NextApp
    \/ \E response \in {"yes", "no"} : migrate_json_to_mongodb(response)
    \/ NextServer

SpecApp == InitApp /\ [][NextAppSystem]_vars

\* The app process in one deployment, and the clients that add, change and
\* remove the records of one list (client_file), one request at a time.  A
\* handler reads and writes the file of its list alone.  The deployment has
\* no legacy files, or, for the admins list, a legacy users file that the
\* operator migrates and whose managers the bootstrap turns into admins.
InitRecords ==
    /\ InitStore
    /\ is_vercel \in BOOLEAN
    /\ client_file \in {USERS_FILE, ENTRIES_FILE, ADMINS_FILE}
    /\ disk \in IF client_file = ADMINS_FILE THEN {NoFiles, LegacyManagers} ELSE {NoFiles}

NextRecords ==
    \/ start_app
    \/ \E data \in MemberPayloads : client_file = USERS_FILE /\ add_member(data)
    \/ \E id \in MemberIds : \E data \in UpdateMemberPayloads :
            client_file = USERS_FILE /\ update_member(id, data)
    \/ \E id \in MemberIds : client_file = USERS_FILE /\ delete_member(id)
    \/ \E sess \in Sessions : \E data \in EntryPayloads :
            client_file = ENTRIES_FILE /\ add_entry(sess, data)
    \/ \E sess \in Sessions : \E id \in EntryIds :
            client_file = ENTRIES_FILE /\ delete_entry(sess, id)
    \/ \E data \in AddAdminPayloads : client_file = ADMINS_FILE /\ add_admin(data)
    \/ \E id \in AdminIds : \E data \in RenameAdminPayloads :
            client_file = ADMINS_FILE /\ update_admin(id, data)
    \/ \E id \in AdminIds : client_file = ADMINS_FILE /\ delete_admin(id)
    \/ \E sess \in EditorSessions : \E id \in EntryIds : \E data \in UpdateEntryPayloads :
            client_file = ENTRIES_FILE /\ update_entry(sess, id, data)
    \/ \E id \in AdminIds : \E data \in PasswordPayloads :
            client_file = ADMINS_FILE /\ change_my_password(id, data)
    \/ client_file = ADMINS_FILE /\ disk # NoFiles /\ migrate_json_to_mongodb("yes")
    \/ NextServer

SpecRecords == InitRecords /\ [][NextRecords]_vars

\* The app process in direct or virtual mode, started once, serving
\* POST /api/members on its worker threads.
InitRequests ==
    /\ InitStore
    /\ is_vercel \in BOOLEAN
    /\ disk = NoFiles
    /\ client_file = USERS_FILE

NextRequests ==
    \/ app = "stopped" /\ start_app
    \/ \E w \in Workers : \E data \in MemberPayloads : add_member_read(w, data)
    \/ \E w \in Workers : write_delete_many(w)
    \/ \E w \in Workers : write_insert_one(w)
    \/ app_read_json(USERS_FILE)
    \/ NextServer

SpecRequests == InitRequests /\ [][NextRequests]_vars

\* A process that activated the virtual filesystem (VERCEL unset) and works
\* on files with open, json.load, json.dump, flush and close; the migration
\* script written for that profile, and the server.
InitVirtual ==
    /\ InitStore
    /\ is_vercel = FALSE
    /\ disk \in {NoFiles, LegacyAll}
    /\ client_file = USERS_FILE

NextVirtual ==
    \/ \E file \in Paths : \E mode \in Modes : open_file(file, mode)
    \/ json_load
    \/ \E obj \in DumpInputs : json_dump(obj)
    \/ flush_file
    \/ close_file
    \/ \E response \in {"yes", "no"} : migrate_json_to_mongodb(response)
    \/ NextServer

SpecVirtual == InitVirtual /\ [][NextVirtual]_vars

\* The three places that build a connection to the store: the threads of a
\* process that construct and use MongoDBBackend, the calls of
\* app.get_mongo_client and the calls of db.get_db.
InitConnections ==
    /\ InitStore
    /\ is_vercel \in BOOLEAN
    /\ disk = NoFiles
    /\ client_file = USERS_FILE

NextConnections ==
    \/ \E w \in Workers : backend_new(w)
    \/ \E w \in Workers : backend_init_test(w)
    \/ \E w \in Workers : backend_init_assign(w)
    \/ \E w \in Workers : backend_get_collection(w)
    \/ get_mongo_client
    \/ db_get_db
    \/ NextServer

SpecConnections == InitConnections /\ [][NextConnections]_vars

\* Every process and every client together.
Next ==
    \/ NextAdapter \/ NextApp \/ NextRecords \/ NextRequests \/ NextMigration
    \/ NextVirtual \/ NextConnections \/ NextServer

Spec == Init /\ [][Next]_vars

\* ------------------------------------------------------------------ claims
\* What the store holds for a collection, as a reader sees it: the first
\* document without its _id, the empty mapping when there is none.
Stored(st, c) == IF st[c] = <<>> THEN EmptyDoc ELSE StripId(Head(st[c]))

UsersIn(st) == ListOf(Stored(st, "users"), "users")
AdminsIn(st) == ListOf(Stored(st, "admins"), "admins")

HasPermanentBoss(admins) ==
    \E i \in DOMAIN admins : RGet(admins[i], "permanent", FALSE) /\ admins[i].role = "boss"

\* C1: round trip through the storage adapter: a write_json(key, D) that
\* returned, directly followed by a read_json(key) that reached the store,
\* reads back exactly D.
C1_RoundTrip ==
    [][(/\ last.op = "adapter.write_json" /\ last.ok
        /\ last'.op = "adapter.read_json" /\ last'.ok
        /\ last'.f = last.f)
       => last'.res = last.arg]_vars

\* C2: a read of a logical file whose collection holds no document returns
\* the canonical empty default of that file.
C2_ReadDefault ==
    (/\ last.op \in {"app.read_json", "adapter.read_json"}
     /\ store[collection_map[last.f]] = <<>>)
    => last.res = empty_structure(collection_map[last.f])

\* C3: exactly one document per collection: once every collection holds
\* its one document, every write, bootstrap and migration keeps it so.
C3_ExactlyOneDocument ==
    [][(\A c \in Collections : Len(store[c]) = 1)
       => (\A c \in Collections : Len(store'[c]) = 1)]_vars

\* C4: the bootstrap is idempotent: a second ensure_admins_file run right
\* after a completed one (the store answering in both) changes no document.
C4_BootstrapIdempotent ==
    [][(/\ last.op = "ensure_admins_file" /\ last.ok
        /\ last'.op = "ensure_admins_file" /\ last'.ok
        /\ mongoUp)
       => store' = store]_vars

\* C5: right after a completed bootstrap, the store answering, the admins
\* document holds an admin that is permanent and has role boss.
C5_PermanentBossAfterBootstrap ==
    (last.op = "ensure_admins_file" /\ last.ok /\ mongoUp)
    => HasPermanentBoss(AdminsIn(store))

\* C6: a restart of a process that has bootstrapped before, while the store
\* holds admins, skips the partition: stored admins and users stay as they were.
C6_PartitionAtMostOnce ==
    [][(/\ app # "stopped"
        /\ AdminsIn(store) # <<>>
        /\ last'.op = "ensure_admins_file")
       => (AdminsIn(store') = AdminsIn(store) /\ UsersIn(store') = UsersIn(store))]_vars

AdminRequests ==
    {"add_admin", "update_admin", "delete_admin", "change_my_password", "import_all_data"}

\* C7: no admin request removes the permanent boss: when the admins document
\* holds a permanent boss, it holds one after the request too, and every
\* permanent admin is still there, permanent, and a boss if it was one.
C7_PermanentBossKept ==
    [][(/\ app = "running"
        /\ last'.op \in AdminRequests
        /\ HasPermanentBoss(AdminsIn(store)))
       => (/\ HasPermanentBoss(AdminsIn(store'))
           /\ \A i \in DOMAIN AdminsIn(store) :
                LET a == AdminsIn(store)[i] IN
                a.permanent =>
                    \E j \in DOMAIN AdminsIn(store') :
                        LET b == AdminsIn(store')[j] IN
                        /\ b.id = a.id /\ b.permanent
                        /\ (a.role = "boss" => b.role = "boss"))]_vars

IsMember(u) == RGet(u, "role", "") = "member"

\* How many members, and how many other records, list holds up to position i.
MemberRank(list, i) == Cardinality({j \in 1..i : IsMember(list[j])})
OtherRank(list, i) == Cardinality({j \in 1..i : ~IsMember(list[j])})

C9_ExactlyOnePermanentBoss ==
    (last.op = "ensure_admins_file" /\ last.ok /\ mongoUp)
    => LET A == AdminsIn(store)
           P == {i \in DOMAIN A : RGet(A[i], "permanent", FALSE)}
       IN Cardinality(P) = 1 /\ \A i \in P : A[i].role = "boss"

\* C10: a handler answers success only for a write that persisted: after
\* update_message answered 200 the store holds the message it was given.
C10_WriteSurfaced ==
    (last.op = "update_message" /\ last.status = 200)
    => Stored(store, "message") = [message |-> S(PGet(last.arg, "message", ""))]

\* C11: a read while the store does not answer raises nothing, returns the
\* canonical empty default of the file it was asked for, and changes no
\* stored document.
C11_ReadFailureDefault ==
    [][(/\ last'.op \in {"app.read_json", "adapter.read_json"}
        /\ last'.f \in Files
        /\ ~mongoUp)
       => (/\ last'.exc = ""
           /\ last'.res = empty_structure(collection_map[last'.f])
           /\ store' = store)]_vars

\* C12: a read or a write through the storage adapter of a file name that is
\* not registered ends in an exception: it returns no document and stores nothing.
C12_UnknownFileRaises ==
    [][(/\ last'.op \in {"adapter.read_json", "adapter.write_json"}
        /\ last'.f \notin Files)
       => (last'.exc # "" /\ store' = store)]_vars

\* The canonical shape of a logical file's document.
CanonicalShape(f, doc) ==
    CASE f = USERS_FILE -> DOMAIN doc = {"users"} /\ doc["users"].t = "list"
      [] f = ENTRIES_FILE -> DOMAIN doc = {"entries"} /\ doc["entries"].t = "list"
      [] f = MESSAGE_FILE -> DOMAIN doc = {"message"} /\ doc["message"].t = "str"
      [] f = ADMINS_FILE -> DOMAIN doc = {"admins"} /\ doc["admins"].t = "list"
      [] f = ADMIN_SETTINGS_FILE -> \A k \in DOMAIN doc : doc[k].t \in {"str", "list", "map"}

\* C13: the normalizer is total: for every registered file and every raw
\* input, a mapping or not, _ensure_structure raises nothing and returns a
\* document of the canonical shape of that file.
C13_NormalizerTotal ==
    (last.op = "_ensure_structure")
    => (last.exc = "" /\ CanonicalShape(last.f, last.res))

\* The requests of the app that write a document.
AppWrites ==
    AdminRequests \cup {"update_message", "add_member", "update_member", "delete_member",
                        "add_entry", "delete_entry"}

\* The list field (the message string) of a stored document is there and
\* has its type.
WellFormed(c, doc) ==
    CASE c = "users" -> IsList(doc, "users")
      [] c = "time_entries" -> IsList(doc, "entries")
      [] c = "admins" -> IsList(doc, "admins")
      [] c = "message" -> IsStr(doc, "message")
      [] OTHER -> TRUE

\* C14: malformed input is never persisted: after a request of the app that
\* writes, every stored users, time_entries and admins document holds its
\* list and every message document holds a string.
C14_StoredWellFormed ==
    [][(app = "running" /\ last'.op \in AppWrites)
       => \A c \in Collections : \A i \in DOMAIN store'[c] : WellFormed(c, store'[c][i])]_vars

\* C15: a write fully replaces the stored document body: after two
\* sequential writes through the storage adapter to one file, the document
\* a reader finds is exactly the normalized second input: no field of the
\* first write or of a document stored earlier is left.
C15_FullReplace ==
    [][(/\ last.op = "adapter.write_json" /\ last.ok
        /\ last'.op = "adapter.write_json" /\ last'.ok
        /\ last'.f = last.f)
       => Stored(store', FILE_TO_COLLECTION[last'.f][1])
              = ensure_structure(FILE_TO_COLLECTION[last'.f][1], last'.arg)]_vars

\* The usernames of the records of a users document.
UsernamesOf(doc) ==
    {ListOf(doc, "users")[i].username : i \in DOMAIN ListOf(doc, "users")}

\* C16: lost update: the document an add_member request commits is the
\* users list it had read with its own member appended, whatever other
\* requests have stored since that read; so of two requests that read the
\* same document each writes back a list without the other's member.
C16_LostUpdate ==
    [][\A w \in Workers :
          (reqs[w].pc = "insert" /\ reqs'[w].pc = "done" /\ mongoUp)
          => LET list == ListOf(StripId(store'["users"][Len(store'["users"])]), "users")
                 snap == ListOf(reqs[w].snap, "users")
             IN /\ Len(list) = Len(snap) + 1
                /\ SubSeq(list, 1, Len(snap)) = snap
                /\ list[Len(list)].username = PGet(reqs[w].data, "username", "")]_vars

\* C16 witness: two requests for different members read the same users
\* document, both carried out their insert_one and answered success, and no
\* stored document holds both members: a reader finds one of the two.
C16_Witness ==
    \E w, o \in Workers :
        /\ w # o
        /\ reqs[w].pc = "done" /\ reqs[w].status = 200 /\ reqs[w].inserted
        /\ reqs[o].pc = "done" /\ reqs[o].status = 200 /\ reqs[o].inserted
        /\ reqs[w].snap = reqs[o].snap
        /\ PGet(reqs[w].data, "username", "") # PGet(reqs[o].data, "username", "")
        /\ store["users"] # <<>>
        /\ \A i \in DOMAIN store["users"] :
              ~({PGet(reqs[w].data, "username", ""), PGet(reqs[o].data, "username", "")}
                    \subseteq UsernamesOf(store["users"][i]))
        /\ Cardinality(UsernamesOf(Stored(store, "users"))
                       \cap {PGet(reqs[w].data, "username", ""),
                             PGet(reqs[o].data, "username", "")}) = 1

\* C17: last writer wins: when a writer has carried out its insert_one and
\* no other writer stands between its delete_many and its insert_one, the
\* users collection holds a single document, the one just inserted.
C17_LastWriterWins ==
    [][(/\ last'.op = "insert_one" /\ last'.ok
        /\ \A w \in Workers : reqs'[w].pc # "insert")
       => store'["users"] = <<Merge(last'.arg, [_id |-> ObjectId])>>]_vars

\* No two records of the list have the same id.
DistinctIds(list) ==
    \A i, j \in DOMAIN list : list[i].id = list[j].id => i = j

DistinctUsernames(list) ==
    \A i, j \in DOMAIN list : list[i].username = list[j].username => i = j

\* C19: admin usernames stay unique: add_admin, update_admin and
\* delete_admin take an admins list of distinct usernames to one of
\* distinct usernames.
C19_AdminUsernamesUnique ==
    [][(/\ last'.op \in {"add_admin", "update_admin", "delete_admin"}
        /\ DistinctUsernames(AdminsIn(store)))
       => DistinctUsernames(AdminsIn(store'))]_vars

\* C20: member usernames stay unique: add_member, update_member and
\* delete_member take a users list of distinct usernames to one of
\* distinct usernames.
C20_MemberUsernamesUnique ==
    [][(/\ last'.op \in {"add_member", "update_member", "delete_member"}
        /\ DistinctUsernames(UsersIn(store)))
       => DistinctUsernames(UsersIn(store'))]_vars

MigrationRuns == {"migrate_all", "migrate_json_to_mongodb"}

\* C21: a migration script started on a store that holds data, the operator
\* answering anything that lower-cased (and, in migrate_to_mongodb.py,
\* stripped of surrounding blanks) is other than 'yes', returns failure and
\* modifies no collection.
C21_RefusesWithoutConfirmation ==
    [][(/\ last'.op \in MigrationRuns
        /\ has_existing_data(store)
        /\ (IF last'.op = "migrate_all" THEN lower(strip(last'.f)) ELSE lower(last'.f)) # "yes")
       => (store' = store /\ ~last'.ok)]_vars

\* C21 witness: the store holding data and answering, the operator answered
\* 'no' and the script returned failure.
C21_Witness ==
    /\ last.op \in MigrationRuns /\ last.f = "no" /\ ~last.ok
    /\ mongoUp /\ has_existing_data(store)
    /\ \E f \in Files : path_exists(f)

\* C21 as stated: any answer other than the string 'yes' makes the script
\* return failure without modifying a collection.
C21_RefusesUnlessLiteralYes ==
    [][(/\ last'.op \in MigrationRuns
        /\ has_existing_data(store)
        /\ last'.f # "yes")
       => (store' = store /\ ~last'.ok)]_vars

\* The logical file a path spells, "" when it spells none of the five.
LogicalFile(path) ==
    CASE path \in Files -> path
      [] path \in {"./data/users.json", "data\\users.json"} -> USERS_FILE
      [] OTHER -> ""

\* C22: open() of a path that spells none of the five logical files is
\* handed to the real open with the arguments it was called with and leaves
\* the store and the backend alone; open() of a path that spells one of the
\* five returns a virtual file for that logical file and touches neither the
\* disk nor the stored documents.
C22_InterceptsKnownPaths ==
    [][last'.op = "open" =>
        IF LogicalFile(last'.f) \in Files
            THEN /\ vfile'.kind = "virtual"
                 /\ get_collection_name(vfile'.path) = collection_map[LogicalFile(last'.f)]
                 /\ store' = store /\ disk' = disk
            ELSE /\ vfile' = original_open(last'.f, last'.arg.mode.v)
                 /\ store' = store /\ disk' = disk /\ backend' = backend]_vars

\* A state right after open('./data/users.json') returned a virtual file while
\* the real file exists on disk and the store holds users.
C22_Witness ==
    /\ last.op = "open" /\ last.f = "./data/users.json"
    /\ vfile.kind = "virtual" /\ vfile.state = "open"
    /\ path_exists(USERS_FILE)
    /\ UsersIn(store) # <<>>

\* C23: closing a virtual file opened for writing stores the buffered
\* document, a second close writes nothing more, and a file opened for
\* reading never writes.
C23_CloseWritesBuffer ==
    [][(last'.op = "close" /\ vfile.kind = "virtual") =>
        /\ close_writes(vfile) =>
                Stored(store', get_collection_name(vfile.path)) = loads(vfile.buffer[1])
        /\ vfile.state = "closed" => store' = store
        /\ InMode("r", vfile.mode) => store' = store]_vars

VirtualFileOps == {"open", "json.load", "json.dump", "flush", "close"}

\* C24: while the store does not answer, no operation on a virtual file
\* raises, and a file opened for reading presents the empty document.
C24_NeverThrows ==
    [][(/\ last'.op \in VirtualFileOps
        /\ ~mongoUp
        /\ vfile'.kind = "virtual")
       => /\ last'.exc = ""
          /\ (last'.op = "open" /\ InMode("r", vfile'.mode))
                => vfile'.buffer = <<dumps(EmptyDoc)>>]_vars

\* C25: a call that is about to use the store has had a connection attempt
\* made for it, and no call builds a second connection in the process.
C25_ConnectsOnce ==
    [][/\ last'.op = "get_mongo_client" => clients'.built <= 1
       /\ last'.op = "db.get_db" => clients'.db_built = 1
       /\ last'.op = "MongoDBBackend.get_collection" => backend'.attempted]_vars

\* C28: the connection state of the MongoDBBackend instance is initialised
\* exactly once, and not again once a caller has used the instance.
C28_InitialisedOnce ==
    [][/\ backend'.inits <= 1
       /\ backend.used => backend'.inits = backend.inits]_vars

\* The other profile's read_json on the same store and disk (app.py 79-88).
local_read_json(st, up, filename) ==
    IF ~path_exists(filename) THEN EmptyDoc ELSE virtual_read(st, up, filename)

\* C26: whenever a handler reads a logical file, the direct profile and the
\* local (virtual filesystem) profile return the same document for it from
\* the same store, and a write of the same document by either profile
\* leaves the same store behind.
C26_ModesAgree ==
    (last.op = "app.read_json") =>
        /\ read_from_mongodb(store, mongoUp, last.f) = local_read_json(store, mongoUp, last.f)
        /\ \A data \in WriteInputs(last.f) :
                write_to_mongodb(store, mongoUp, last.f, data)
                    = virtual_write(store, mongoUp, last.f, data).store

RejectedStatuses == {400, 403, 404}
RejectingRequests ==
    {"add_admin", "update_admin", "delete_admin", "change_my_password", "update_entry"}

\* C29: a request that add_admin, update_admin, delete_admin,
\* change_my_password or update_entry answers with 400, 403 or 404 leaves
\* every stored document as it was.
C29_RejectedLeavesStore ==
    [][(last'.op \in RejectingRequests /\ last'.status \in RejectedStatuses)
       => store' = store]_vars

\* A member's PUT on another member's stored entry was answered 403.
C29_Witness ==
    /\ last.op = "update_entry" /\ last.status = 403
    /\ mongoUp
    /\ ListOf(Stored(store, "time_entries"), "entries") # <<>>

\* C27: a request whose read_json fell back to the empty mapping because the
\* store did not answer never goes on to remove a non-empty stored users
\* list in its write_json.
C27_FallbackNeverOverwrites ==
    [][\A w \in Workers :
          (/\ reqs[w].pc = "write" /\ reqs[w].fell_back
           /\ reqs'[w].pc # "write"
           /\ UsersIn(store) # <<>>)
          => store' = store]_vars

\* C30: in direct mode, a read_json that reaches the store while another
\* request is inside its write_json of the same file, the file having held a
\* document before, never returns the empty mapping.
C30_ReadNeverEmpty ==
    (/\ last.op = "app.read_json" /\ last.f = USERS_FILE
     /\ is_vercel /\ mongoUp
     /\ \E w \in Workers : reqs[w].pc = "insert" /\ reqs[w].snap # EmptyDoc)
    => last.res # EmptyDoc

====
